---- MODULE Spec2Model ----
(***************************************************************************)
(* A model of main.go of WhatsappBulkMessage: one sequential process that  *)
(* starts ChromeDriver, opens a browser session, waits for the WhatsApp    *)
(* Web login, reads numbers.txt and text.txt and then, number by number,   *)
(* navigates to a send URL, polls for a send control and clicks it or      *)
(* falls back to the Enter key.  Every call into the operating system or   *)
(* the browser is a step whose outcome is chosen nondeterministically.     *)
(***************************************************************************)
EXTENDS Integers, Sequences, FiniteSets, TLC

\* ---------------------------------------------------------------- bounds
\* The longest numbers file (in lines) the model reads.
MaxLines == 2
\* The longest time one round of browser calls may take, in poll intervals.
MaxLatencyTicks == 1

\* ------------------------------------------------------ program constants
LoginTimeoutMs == 120000
LoginIntervalMs == 1000
PollWindowMs == 30000
PollIntervalMs == 500
SentDelayMs == 5000
SkipDelayMs == 2000
\* The two values of the compiled-in chromeDriverPath that main tells apart.
ConfiguredPaths == {"", "chromedriver-win64\\chromedriver.exe"}
\* The five selectors of the send control, in the order they are tried.
sendButtonSelectors ==
    << "//span[@data-icon='wds-ic-send-filled']",
       "//button[@aria-label='Send']",
       "//button[@aria-label='Gonder']",
       "span[data-testid='send']",
       "button[data-testid='send']" >>

\* ------------------------------------------------------------ input files
\* Text is a sequence of characters; a file of lines is a sequence of texts.
Space == " "
RawLines == { <<>>, <<Space>>, <<"1">>, <<Space, "2", Space>> }
NumberFiles == UNION { [1..n -> RawLines] : n \in 0..MaxLines }
MessageFiles == { <<>>, <<Space, Space>>, <<Space, "h", "i", Space>> }
\* The time, in milliseconds, a round of browser calls may add to a poll.
Latencies == { k * PollIntervalMs : k \in 0..MaxLatencyTicks }

\* strings.TrimSpace: leading and trailing white space removed.
RECURSIVE TrimLeft(_)
TrimLeft(s) ==
    IF s = <<>> THEN s
    ELSE IF Head(s) = Space THEN TrimLeft(Tail(s)) ELSE s

RECURSIVE TrimRight(_)
TrimRight(s) ==
    IF s = <<>> THEN s
    ELSE IF s[Len(s)] = Space THEN TrimRight(SubSeq(s, 1, Len(s) - 1)) ELSE s

TrimSpace(s) == TrimRight(TrimLeft(s))

\* readLines: one entry per line of the file, each trimmed; blank lines stay.
readLines(file) == [i \in 1..Len(file) |-> TrimSpace(file[i])]

VARIABLES
    pc,               \* the statement main is at
    chromeDriverPath, \* the compiled-in constant
    exitCode,         \* -1 while running, then the process's exit status
    logFile,          \* "none", "open", "closed"
    service,          \* "none", "running", "stopped"
    session,          \* "none", "open", "quit"
    defers,           \* the stack of deferred calls of main
    released,         \* the deferred calls that ran, in order
    log,              \* the entries appended to the log file: <<kind, number>>
    attempts,         \* the paths ChromeDriver was started from, in order
    steps,            \* the start-up steps that succeeded, in order
    ops,              \* browser calls <<op, index, ok>>, sleeps <<"sleep", index, ms>>
    outcomes,         \* the outcome of each finished iteration of the loop
    logMarks,         \* Len(log) at the start of each iteration of the loop
    numbers,          \* the lines of numbers.txt as readLines returned them
    rawMessage,       \* the trimmed message
    idx,              \* the index of the loop's current number
    elapsed,          \* milliseconds since the current poll started
    selector,         \* the index of the selector tried next in this round
    rejected,         \* the selectors this round tried and found not clickable
    buttonFound,
    sendButton        \* the element the poll chose, with what it observed

vars == << pc, chromeDriverPath, exitCode, logFile, service, session, defers,
           released, log, attempts, steps, ops, outcomes, logMarks, numbers,
           rawMessage, idx, elapsed, selector, rejected, buttonFound,
           sendButton >>

resources == << logFile, service, session, defers, released >>
inputs == << numbers, rawMessage >>
loopVars == << idx, selector, rejected, buttonFound, sendButton, ops, outcomes,
              logMarks >>

NoNumber == <<>>
NoElement == [sel |-> 0, displayed |-> FALSE, enabled |-> FALSE]

\* logMessage: the entry is appended to the log file.
logMessage(l, kind, number) == Append(l, <<kind, number>>)

\* logMessage followed by os.Exit(1): the process ends at once and no deferred
\* call runs.
LogAndExit(kind) ==
    /\ log' = logMessage(log, kind, NoNumber)
    /\ pc' = "exited"
    /\ exitCode' = 1

Init ==
    /\ pc = "setupLog"
    /\ chromeDriverPath \in ConfiguredPaths
    /\ exitCode = -1
    /\ logFile = "none"
    /\ service = "none"
    /\ session = "none"
    /\ defers = <<>>
    /\ released = <<>>
    /\ log = <<>>
    /\ attempts = <<>>
    /\ steps = <<>>
    /\ ops = <<>>
    /\ outcomes = <<>>
    /\ logMarks = <<>>
    /\ numbers = <<>>
    /\ rawMessage = <<>>
    /\ idx = 1
    /\ elapsed = 0
    /\ selector = 1
    /\ rejected = {}
    /\ buttonFound = FALSE
    /\ sendButton = NoElement

\* main, lines 93-99: the log file is set up; log.Fatalf ends the process when
\* it cannot be.
SetupLogFile ==
    /\ pc = "setupLog"
    /\ \E ok \in BOOLEAN :
         IF ok
         THEN /\ logFile' = "open"
              /\ defers' = Append(defers, "logFile.Close")
              /\ log' = logMessage(log, "Application started", NoNumber)
              /\ pc' = "startService"
              /\ UNCHANGED exitCode
         ELSE /\ pc' = "exited"
              /\ exitCode' = 1
              /\ UNCHANGED << logFile, defers, log >>
    /\ UNCHANGED << chromeDriverPath, service, session, released, attempts,
                    steps, elapsed >>
    /\ UNCHANGED inputs
    /\ UNCHANGED loopVars

\* The service started: line 116 defers its stop.
ServiceStarted ==
    /\ service' = "running"
    /\ defers' = Append(defers, "service.Stop")
    /\ steps' = Append(steps, "service")
    /\ pc' = "profile"
    /\ UNCHANGED << log, exitCode >>

\* Lines 112-115: neither attempt started the service.
ServiceFailed ==
    /\ LogAndExit("Error starting ChromeDriver service")
    /\ UNCHANGED << service, defers, steps >>

\* A fault: a failed start from the configured path is final.
FallBackToPath_GivesUp == ServiceFailed

\* Lines 104-107: the start from the configured path failed; the failure is
\* logged and the start from PATH is next.
FallBackToPath ==
    /\ log' = logMessage(log, "Failed to start ChromeDriver service from specified path",
                         NoNumber)
    /\ pc' = "startFromPath"
    /\ UNCHANGED << service, defers, steps, exitCode >>

\* Lines 102-103: NewChromeDriverService(chromeDriverPath, port).
StartServiceConfigured ==
    /\ pc = "startService"
    /\ chromeDriverPath # ""
    /\ attempts' = Append(attempts, "configured path")
    /\ \E ok \in BOOLEAN : IF ok THEN ServiceStarted ELSE FallBackToPath
    /\ UNCHANGED << chromeDriverPath, logFile, session, released, elapsed >>
    /\ UNCHANGED inputs
    /\ UNCHANGED loopVars

\* Lines 106 and 109: NewChromeDriverService("", port).
StartServiceFromPath ==
    /\ \/ pc = "startFromPath"
       \/ pc = "startService" /\ chromeDriverPath = ""
    /\ attempts' = Append(attempts, "PATH")
    /\ \E ok \in BOOLEAN : IF ok THEN ServiceStarted ELSE ServiceFailed
    /\ UNCHANGED << chromeDriverPath, logFile, session, released, elapsed >>
    /\ UNCHANGED inputs
    /\ UNCHANGED loopVars

\* Lines 122-141: the profile folder is resolved, checked and, when missing,
\* created; each failure is logged and ends the process.
ProfileFolder ==
    /\ pc = "profile"
    /\ \E outcome \in { "abs failed", "missing, created", "missing, mkdir failed",
                        "stat failed", "exists" } :
         IF outcome \in { "missing, created", "exists" }
         THEN /\ pc' = "connect"
              /\ UNCHANGED << log, exitCode >>
         ELSE LogAndExit("Profile folder error")
    /\ UNCHANGED << chromeDriverPath, attempts, steps, elapsed >>
    /\ UNCHANGED resources
    /\ UNCHANGED inputs
    /\ UNCHANGED loopVars

\* Lines 145-150: selenium.NewRemote; on success its Quit is deferred.
NewRemote ==
    /\ pc = "connect"
    /\ \E ok \in BOOLEAN :
         IF ok
         THEN /\ session' = "open"
              /\ defers' = Append(defers, "wd.Quit")
              /\ steps' = Append(steps, "session")
              /\ pc' = "openWhatsApp"
              /\ UNCHANGED << log, exitCode >>
         ELSE /\ LogAndExit("Error connecting to WebDriver")
              /\ UNCHANGED << session, defers, steps >>
    /\ UNCHANGED << chromeDriverPath, logFile, service, released, attempts,
                    elapsed >>
    /\ UNCHANGED inputs
    /\ UNCHANGED loopVars

\* Lines 153-156: wd.Get(whatsAppURL).
OpenWhatsApp ==
    /\ pc = "openWhatsApp"
    /\ \E ok \in BOOLEAN :
         IF ok
         THEN /\ steps' = Append(steps, "whatsapp")
              /\ pc' = "login"
              /\ elapsed' = 0
              /\ UNCHANGED << log, exitCode >>
         ELSE /\ LogAndExit("Error opening WhatsApp Web")
              /\ UNCHANGED << steps, elapsed >>
    /\ UNCHANGED << chromeDriverPath, attempts >>
    /\ UNCHANGED resources
    /\ UNCHANGED inputs
    /\ UNCHANGED loopVars

\* Lines 161-175: WaitWithTimeoutAndInterval polls for the login element once
\* a second; it gives up once more than 120 seconds have passed.
LoginPoll ==
    /\ pc = "login"
    /\ \E found \in BOOLEAN, d \in Latencies :
         IF found
         THEN /\ log' = logMessage(log, "Login check element found", NoNumber)
              /\ steps' = Append(steps, "login")
              /\ pc' = "readNumbers"
              /\ elapsed' = 0
              /\ UNCHANGED exitCode
         ELSE IF elapsed + d > LoginTimeoutMs
              THEN /\ LogAndExit("Login failed or timed out")
                   /\ elapsed' = 0
                   /\ UNCHANGED steps
              ELSE /\ elapsed' = elapsed + d + LoginIntervalMs
                   /\ UNCHANGED << pc, log, steps, exitCode >>
    /\ UNCHANGED << chromeDriverPath, attempts >>
    /\ UNCHANGED resources
    /\ UNCHANGED inputs
    /\ UNCHANGED loopVars

\* Line 183: the numbers file gave no line at all.
NoNumbers(lines) == Len(lines) = 0

\* Lines 178-186: numbers.txt is read; a read error or a file without lines is
\* logged and ends the process.
ReadNumbers ==
    /\ pc = "readNumbers"
    /\ \E ok \in BOOLEAN, file \in NumberFiles :
         LET lines == readLines(file) IN
         IF ~ok
         THEN /\ LogAndExit("Error reading numbers")
              /\ UNCHANGED << numbers, steps >>
         ELSE IF NoNumbers(lines)
              THEN /\ LogAndExit("No numbers found")
                   /\ numbers' = lines
                   /\ UNCHANGED steps
              ELSE /\ numbers' = lines
                   /\ steps' = Append(steps, "numbers")
                   /\ pc' = "readMessage"
                   /\ UNCHANGED << log, exitCode >>
    /\ UNCHANGED << chromeDriverPath, attempts, rawMessage, elapsed >>
    /\ UNCHANGED resources
    /\ UNCHANGED loopVars

\* A fault: the check of line 196 is left out.
EmptyMessage_Unchecked(msg) == FALSE

\* Line 196: the trimmed message is empty.
EmptyMessage(msg) == msg = <<>>

\* Lines 190-200: text.txt is read and trimmed; a read error or an empty
\* message is logged and ends the process.
ReadMessage ==
    /\ pc = "readMessage"
    /\ \E ok \in BOOLEAN, file \in MessageFiles :
         LET msg == TrimSpace(file) IN
         IF ~ok
         THEN /\ LogAndExit("Error reading message")
              /\ UNCHANGED << rawMessage, steps >>
         ELSE IF EmptyMessage(msg)
              THEN /\ LogAndExit("Message is empty")
                   /\ UNCHANGED << rawMessage, steps >>
              ELSE /\ rawMessage' = msg
                   /\ steps' = Append(steps, "message")
                   /\ pc' = "loop"
                   /\ UNCHANGED << log, exitCode >>
    /\ UNCHANGED << chromeDriverPath, attempts, numbers, elapsed >>
    /\ UNCHANGED resources
    /\ UNCHANGED loopVars

\* -------------------------------------------------------------- send loop
startup == << chromeDriverPath, attempts, steps >>

\* A fault: continue tries the same line again.
NextNumber_Retry(i) == i

\* Line 216: range moves on to the next line of the file.
NextNumber(i) == i + 1

\* A fault: the sleep before continue is left out.
Sleep_Skipped(o, i, ms) == o

\* time.Sleep(ms) in the iteration of number i.
Sleep(o, i, ms) == Append(o, <<"sleep", i, ms>>)

\* The end of an iteration: what it logged, the sleep, then continue.
Continue(outcome, newLog, newOps, delay) ==
    /\ log' = newLog
    /\ ops' = Sleep(newOps, idx, delay)
    /\ outcomes' = Append(outcomes, outcome)
    /\ idx' = NextNumber(idx)
    /\ pc' = "loop"
    /\ elapsed' = 0
    /\ selector' = 1
    /\ rejected' = {}
    /\ buttonFound' = FALSE
    /\ sendButton' = NoElement
    /\ UNCHANGED << exitCode, logMarks >>

\* A fault: giving a number up ends the process the way a start-up failure does.
Skip_Exits(outcome, newLog, newOps) ==
    /\ log' = newLog
    /\ ops' = newOps
    /\ pc' = "exited"
    /\ exitCode' = 1
    /\ UNCHANGED << outcomes, idx, elapsed, selector, rejected, buttonFound,
                    sendButton, logMarks >>

\* Lines 225-226, 273-274, 290-291: the number is given up.
Skip(outcome, newLog, newOps) == Continue(outcome, newLog, newOps, SkipDelayMs)

\* Lines 261-262, 283-284, 295: the message counts as sent.
Sent(outcome, newLog, newOps) == Continue(outcome, newLog, newOps, SentDelayMs)

\* Lines 216-219: the loop ends after the last line, passes over an empty line
\* and otherwise begins the iteration of the line.
LoopNext ==
    /\ pc = "loop"
    /\ \/ /\ idx > Len(numbers)
          /\ pc' = "finish"
          /\ UNCHANGED << idx, outcomes, logMarks >>
       \/ /\ idx <= Len(numbers)
          /\ numbers[idx] = <<>>
          /\ idx' = NextNumber(idx)
          /\ outcomes' = Append(outcomes, "blank")
          /\ logMarks' = Append(logMarks, Len(log))
          /\ UNCHANGED pc
       \/ /\ idx <= Len(numbers)
          /\ numbers[idx] # <<>>
          /\ pc' = "navigate"
          /\ logMarks' = Append(logMarks, Len(log))
          /\ UNCHANGED << idx, outcomes >>
    /\ UNCHANGED << exitCode, log, ops, elapsed, selector, rejected, buttonFound,
                    sendButton >>
    /\ UNCHANGED startup
    /\ UNCHANGED resources
    /\ UNCHANGED inputs

\* Lines 222-231: wd.Get(sendURL); a failure is logged and the number skipped,
\* a success starts the poll for the send control.
Navigate ==
    /\ pc = "navigate"
    /\ \E ok \in BOOLEAN :
         LET o == Append(ops, <<"nav", idx, ok>>) IN
         IF ok
         THEN /\ ops' = o
              /\ pc' = "find"
              /\ elapsed' = 0
              /\ selector' = 1
              /\ rejected' = {}
              /\ UNCHANGED << exitCode, log, outcomes, logMarks, idx,
                              buttonFound, sendButton >>
         ELSE Skip("nav failed",
                   logMessage(log, "FAILED to navigate to send URL", numbers[idx]), o)
    /\ UNCHANGED startup
    /\ UNCHANGED resources
    /\ UNCHANGED inputs

\* A fault: line 239 tests displayed alone.
Clickable_IgnoresEnabled(found, displayed, enabled) == found /\ displayed

\* Line 239: the element can be clicked.
Clickable(found, displayed, enabled) == found /\ displayed /\ enabled

\* Lines 235-238: what FindElement, IsDisplayed and IsEnabled may report of one
\* selector: no element, or an element with its two flags.
Observations ==
    { << FALSE, FALSE, FALSE >> }
        \cup { << TRUE, d, e >> : d \in BOOLEAN, e \in BOOLEAN }

\* Line 234: the order in which one round tries the selectors.
SelectorOrder == [k \in 1..Len(sendButtonSelectors) |-> k]

\* Lines 234-248 and 252: one selector of the round is tried.  The first
\* element that is displayed and enabled ends the poll and is the one clicked.
FindSendButton ==
    /\ pc = "find"
    /\ \E obs \in Observations :
         IF Clickable(obs[1], obs[2], obs[3])
         THEN /\ sendButton' = [sel |-> SelectorOrder[selector],
                                displayed |-> obs[2], enabled |-> obs[3]]
              /\ buttonFound' = TRUE
              /\ ops' = Append(ops, <<"poll", idx, TRUE>>)
              /\ pc' = "click"
              /\ elapsed' = 0
              /\ UNCHANGED << selector, rejected >>
         ELSE /\ rejected' = rejected \cup {SelectorOrder[selector]}
              /\ IF selector = Len(sendButtonSelectors)
                 THEN pc' = "pollSleep" /\ UNCHANGED selector
                 ELSE selector' = selector + 1 /\ UNCHANGED pc
              /\ UNCHANGED << sendButton, buttonFound, ops, elapsed >>
    /\ UNCHANGED << exitCode, log, outcomes, logMarks, idx >>
    /\ UNCHANGED startup
    /\ UNCHANGED resources
    /\ UNCHANGED inputs

\* Line 233: the poll goes on while less than 30 seconds have passed.
WithinWindow(e) == e < PollWindowMs

\* Lines 233 and 249: no selector of the round gave a clickable element; the
\* poll sleeps 500 ms and starts another round unless the window has passed.
PollSleep ==
    /\ pc = "pollSleep"
    /\ \E d \in Latencies :
         LET e == elapsed + d + PollIntervalMs IN
         /\ elapsed' = e
         /\ IF WithinWindow(e)
            THEN /\ pc' = "find"
                 /\ selector' = 1
                 /\ rejected' = {}
                 /\ UNCHANGED ops
            ELSE /\ pc' = "noButton"
                 /\ ops' = Append(ops, <<"poll", idx, FALSE>>)
                 /\ UNCHANGED << selector, rejected >>
    /\ UNCHANGED << exitCode, log, outcomes, logMarks, idx, buttonFound,
                    sendButton >>
    /\ UNCHANGED startup
    /\ UNCHANGED resources
    /\ UNCHANGED inputs

\* Lines 252-275: no send control was found; Enter is sent to the message box
\* when the box is found and displayed.  Only the skip is logged.
NoButtonFallback ==
    /\ pc = "noButton"
    /\ \E found \in BOOLEAN, displayed \in BOOLEAN, enterOk \in BOOLEAN :
         LET o == Append(ops, <<"enter", idx, enterOk>>)
             skipLog == logMessage(log, "Skipping as message could not be sent",
                                   numbers[idx])
         IN IF found /\ displayed
            THEN IF enterOk
                 THEN Sent("sent by Enter", log, o)
                 ELSE Skip("skipped", skipLog, o)
            ELSE Skip("skipped", skipLog, ops)
    /\ UNCHANGED startup
    /\ UNCHANGED resources
    /\ UNCHANGED inputs

\* A fault: the fallback of lines 278-291 runs after every click.
ClickFailed_Always(ok) == TRUE

\* Line 277: the click returned an error.
ClickFailed(ok) == ~ok

\* Lines 277 and 294-295: the send control is clicked.
Click ==
    /\ pc = "click"
    /\ \E ok \in BOOLEAN :
         LET o == Append(ops, <<"click", idx, ok>>) IN
         IF ClickFailed(ok)
         THEN /\ ops' = o
              /\ pc' = "clickFallback"
              /\ UNCHANGED << exitCode, log, outcomes, logMarks, idx, elapsed,
                              selector, rejected, buttonFound, sendButton >>
         ELSE Sent("sent by click",
                   logMessage(log, "SUCCESS: Message sent", numbers[idx]), o)
    /\ UNCHANGED startup
    /\ UNCHANGED resources
    /\ UNCHANGED inputs

\* Lines 278-291: the click failed; Enter is sent to the message box when the
\* box is found.
ClickFallback ==
    /\ pc = "clickFallback"
    /\ \E found \in BOOLEAN, enterOk \in BOOLEAN :
         LET o == Append(ops, <<"enter", idx, enterOk>>)
             n == numbers[idx]
         IN IF found
            THEN IF enterOk
                 THEN Sent("sent by Enter",
                           logMessage(log, "SUCCESS (probably): sent via Enter key", n), o)
                 ELSE Skip("skipped",
                           logMessage(logMessage(log, "FAILED: Fallback Enter key also failed", n),
                                      "Skipping due to persistent send error", n), o)
            ELSE Skip("skipped",
                      logMessage(log, "Skipping due to persistent send error", n), ops)
    /\ UNCHANGED startup
    /\ UNCHANGED resources
    /\ UNCHANGED inputs

\* Lines 298-302: the closing entries are logged.
Finish ==
    /\ pc = "finish"
    /\ log' = logMessage(logMessage(log, "All message sending attempts completed.",
                                    NoNumber),
                         "Application finished", NoNumber)
    /\ pc' = "return"
    /\ UNCHANGED << exitCode, elapsed >>
    /\ UNCHANGED startup
    /\ UNCHANGED resources
    /\ UNCHANGED inputs
    /\ UNCHANGED loopVars

\* Line 303: main returns and its deferred calls run, the last deferred first
\* (lines 150, 116, 97); the process then ends with status 0.
RunDeferred ==
    /\ pc = "return"
    /\ IF defers = <<>>
       THEN /\ pc' = "done"
            /\ exitCode' = 0
            /\ UNCHANGED resources
       ELSE LET call == defers[Len(defers)] IN
            /\ defers' = SubSeq(defers, 1, Len(defers) - 1)
            /\ released' = Append(released, call)
            /\ session' = IF call = "wd.Quit" THEN "quit" ELSE session
            /\ service' = IF call = "service.Stop" THEN "stopped" ELSE service
            /\ logFile' = IF call = "logFile.Close" THEN "closed" ELSE logFile
            /\ UNCHANGED << pc, exitCode >>
    /\ UNCHANGED << log, elapsed >>
    /\ UNCHANGED startup
    /\ UNCHANGED inputs
    /\ UNCHANGED loopVars

Next ==
    \/ SetupLogFile
    \/ StartServiceConfigured
    \/ StartServiceFromPath
    \/ ProfileFolder
    \/ NewRemote
    \/ OpenWhatsApp
    \/ LoginPoll
    \/ ReadNumbers
    \/ ReadMessage
    \/ LoopNext
    \/ Navigate
    \/ FindSendButton
    \/ PollSleep
    \/ NoButtonFallback
    \/ Click
    \/ ClickFallback
    \/ Finish
    \/ RunDeferred

Spec == Init /\ [][Next]_vars

\* The program as shipped: chromeDriverPath is the path of line 20.
ShippedInit == Init /\ chromeDriverPath # ""

\* The process is sequential and every call it makes returns: a step that can
\* be taken is taken.
FairSpec == ShippedInit /\ [][Next]_vars /\ WF_vars(Next)

\* ----------------------------------------------------------- vocabulary
StartupSteps == << "service", "session", "whatsapp", "login", "numbers", "message" >>
IterationPcs == { "navigate", "find", "pollSleep", "noButton", "click", "clickFallback" }
ErrorKinds ==
    { "Error starting ChromeDriver service", "Profile folder error",
      "Error connecting to WebDriver", "Error opening WhatsApp Web",
      "Login failed or timed out", "Error reading numbers", "No numbers found",
      "Error reading message", "Message is empty" }
SentOutcomes == { "sent by click", "sent by Enter" }
FailedOutcomes == { "nav failed", "skipped" }
Completed == "All message sending attempts completed."

\* The positions in ops of the calls op made for the number at index i.
OpsOf(op, i) == { k \in DOMAIN ops : ops[k][1] = op /\ ops[k][2] = i }
\* The positions in ops of everything done for the number at index i.
AllOpsOf(i) == { k \in DOMAIN ops : ops[k][2] = i }
Navigated == \E k \in DOMAIN ops : ops[k][1] = "nav"
Logged(kind) == \E k \in DOMAIN log : log[k][1] = kind
\* The positions in log of the entries written during iteration i.
LogRange(i) ==
    (logMarks[i] + 1) .. (IF i < Len(logMarks) THEN logMarks[i + 1] ELSE Len(log))
NamedInLog(i) == \E k \in LogRange(i) : log[k][2] = numbers[i]
IsPrefix(s, t) == Len(s) <= Len(t) /\ s = SubSeq(t, 1, Len(s))

\* C1: a send URL is navigated to only after the service started, the session
\* opened, WhatsApp Web opened, the login element was found, the numbers file
\* gave at least one line and the message file a non-empty trimmed message, in
\* this order; a run that ended through a failed step ended with status 1,
\* logged the failure and never navigated to a send URL.
C1_LinearStartup ==
    /\ IsPrefix(steps, StartupSteps)
    /\ Navigated =>
         /\ steps = StartupSteps
         /\ Len(numbers) >= 1
         /\ rawMessage # <<>>
    /\ pc = "exited" =>
         /\ exitCode = 1
         /\ ~Navigated
         /\ logFile = "open" => log[Len(log)][1] \in ErrorKinds

C1_Witness ==
    /\ Navigated
    /\ steps = StartupSteps
    /\ pc = "done"

\* C7: a failed start from the configured path is logged and followed by
\* exactly one start from PATH; when that fails too the failure is logged and
\* the process ends with status 1 with no session ever opened; an empty
\* configured path gives the PATH attempt alone.
C7_DriverFallback ==
    /\ chromeDriverPath = "" => attempts \in { <<>>, << "PATH" >> }
    /\ chromeDriverPath # "" =>
         attempts \in { <<>>, << "configured path" >>, << "configured path", "PATH" >> }
    /\ pc = "startFromPath" => attempts = << "configured path" >>
    /\ attempts = << "configured path", "PATH" >> =>
         Logged("Failed to start ChromeDriver service from specified path")
    /\ (service = "none" /\ pc \notin { "setupLog", "startService", "startFromPath" }
            /\ logFile # "none") =>
         /\ pc = "exited"
         /\ exitCode = 1
         /\ attempts # <<>>
         /\ attempts[Len(attempts)] = "PATH"
         /\ log[Len(log)][1] = "Error starting ChromeDriver service"
         /\ session = "none"
         /\ steps = <<>>
    /\ service # "none" => (steps # <<>> /\ steps[1] = "service")

C7_Witness ==
    /\ attempts = << "configured path", "PATH" >>
    /\ Navigated

\* C3 (as claimed): Enter is sent to the message box only after a click on the
\* send button was attempted for that number and failed.
C3_EnterOnlyAfterFailedClick ==
    \A k \in DOMAIN ops :
        ops[k][1] = "enter" =>
            \E j \in 1..(k - 1) :
                ops[j][1] = "click" /\ ops[j][2] = ops[k][2] /\ ops[j][3] = FALSE

\* C3 (amended): Enter is sent to the message box only after, for that number,
\* either a click on the send button was attempted and failed or the poll
\* ended without finding a send control.
C3_EnterOnlyAsFallback ==
    \A k \in DOMAIN ops :
        ops[k][1] = "enter" =>
            \E j \in 1..(k - 1) :
                /\ ops[j][1] \in { "click", "poll" }
                /\ ops[j][2] = ops[k][2]
                /\ ops[j][3] = FALSE

C3_Witness ==
    /\ \E k \in DOMAIN ops :
         ops[k][1] = "enter" /\ ops[k - 1] = << "click", ops[k][2], FALSE >>
    /\ \E k \in DOMAIN ops :
         ops[k][1] = "enter" /\ ops[k - 1] = << "poll", ops[k][2], FALSE >>

\* C4: the numbers are handled in file order, one finished before the next
\* begins; each non-empty number is navigated to exactly once, clicked at most
\* once and sent Enter at most once; an empty line causes no browser call; no
\* number is gone back to.
C4_SequentialNoRetry ==
    /\ idx <= Len(numbers) + 1
    /\ \A k \in DOMAIN ops : ops[k][2] \in 1..Len(numbers) /\ ops[k][2] <= idx
    /\ \A k \in DOMAIN ops : \A l \in DOMAIN ops : k < l => ops[k][2] <= ops[l][2]
    /\ \A i \in 1..Len(numbers) :
         /\ Cardinality(OpsOf("nav", i)) <= 1
         /\ Cardinality(OpsOf("click", i)) <= 1
         /\ Cardinality(OpsOf("enter", i)) <= 1
         /\ numbers[i] = <<>> => AllOpsOf(i) = {}
         /\ (i < idx /\ numbers[i] # <<>>) => Cardinality(OpsOf("nav", i)) = 1
         /\ (i = idx /\ pc \in IterationPcs \ { "navigate" }) =>
                Cardinality(OpsOf("nav", i)) = 1

C4_Witness ==
    /\ pc = "done"
    /\ Len(numbers) = 2
    /\ numbers[1] # <<>> /\ numbers[2] # <<>> /\ numbers[1] # numbers[2]
    /\ outcomes = << "skipped", "sent by click" >>

\* C6: the next navigation to a send URL is always preceded by a sleep, and an
\* iteration ends with a sleep of 5 seconds when the message counts as sent
\* and of 2 seconds when the number was skipped or its navigation failed.
C6_DelayBetweenMessages ==
    /\ \A k \in DOMAIN ops :
         (ops[k][1] = "nav" /\ \E j \in 1..(k - 1) : ops[j][1] = "nav") =>
             ops[k - 1][1] = "sleep"
    /\ \A i \in 1..Len(outcomes) :
         outcomes[i] # "blank" =>
             /\ AllOpsOf(i) # {}
             /\ LET last == CHOOSE k \in AllOpsOf(i) : \A l \in AllOpsOf(i) : l <= k
                IN /\ ops[last][1] = "sleep"
                   /\ ops[last][3] = IF outcomes[i] \in SentOutcomes
                                     THEN SentDelayMs ELSE SkipDelayMs

C6_Witness ==
    /\ Cardinality({ k \in DOMAIN ops : ops[k][1] = "nav" }) = 2
    /\ \E i \in DOMAIN outcomes : outcomes[i] \in SentOutcomes
    /\ \E i \in DOMAIN outcomes : outcomes[i] \in FailedOutcomes

\* C8 (as claimed): whenever the process has ended, an opened session has been
\* quit, a started service has been stopped and the log file has been closed,
\* in this order.
C8_ReleasedOnEveryExit ==
    pc \in { "exited", "done" } =>
        /\ session # "open"
        /\ service # "running"
        /\ logFile # "open"
        /\ defers = <<>>

\* C9 (as claimed): every iteration that attempted a non-empty number wrote a
\* log entry naming that number before the next one started.
C9_EveryAttemptLogged ==
    \A i \in 1..Len(outcomes) : outcomes[i] # "blank" => NamedInLog(i)

\* C10 (as claimed): a numbers file with no non-empty trimmed line ends the
\* run before the message file is read and before the send loop.
C10_BlankFileExits ==
    (\A i \in 1..Len(numbers) : numbers[i] = <<>>) =>
        /\ pc \notin ({ "readMessage", "loop", "finish", "return", "done" }
                        \cup IterationPcs)
        /\ ~Logged(Completed)

\* A step taken inside an iteration stays in it or returns to the loop head.
IterationStays == pc \in IterationPcs => pc' \in IterationPcs \cup { "loop" }
\* Every iteration that failed or skipped its number named it in the log.
FailuresLogged ==
    \A i \in 1..Len(outcomes) : outcomes[i] \in FailedOutcomes => NamedInLog(i)
\* Once the loop is over every non-empty number has been navigated to.
AllAttempted ==
    pc \in { "finish", "return", "done" } =>
        \A i \in 1..Len(numbers) : numbers[i] # <<>> => OpsOf("nav", i) # {}

\* C2: a failure inside the send loop is logged with the number and the loop
\* goes on: no step of an iteration ends the process, a failed or skipped
\* number is named in the log, every non-empty number has been navigated to
\* once the loop is over, and a run that reached the loop goes on to log the
\* completion entry.
C2_LogAndSkip ==
    /\ [][IterationStays]_vars
    /\ [](FailuresLogged /\ AllAttempted)
    /\ (pc = "loop") ~> Logged(Completed)

C2_Witness ==
    /\ pc = "done"
    /\ Logged(Completed)
    /\ Len(outcomes) = 2
    /\ outcomes[1] \in FailedOutcomes
    /\ outcomes[2] \in SentOutcomes

\* What holds of the poll at each of its statements.
PollState ==
    /\ pc \in { "find", "pollSleep" } =>
         /\ elapsed < PollWindowMs
         /\ ~buttonFound
         /\ rejected = { SelectorOrder[k] : k \in 1..(selector - 1) }
                          \cup (IF pc = "pollSleep" THEN { SelectorOrder[selector] } ELSE {})
    /\ pc = "noButton" => (~buttonFound /\ elapsed >= PollWindowMs)
    /\ pc = "click" =>
         /\ buttonFound
         /\ sendButton.sel \in 1..Len(sendButtonSelectors)
         /\ sendButton.displayed /\ sendButton.enabled
         /\ rejected = 1..(sendButton.sel - 1)
    /\ \A k \in DOMAIN ops :
         ops[k][1] = "click" => (k > 1 /\ ops[k - 1] = << "poll", ops[k][2], TRUE >>)
\* Every sleep of the poll adds at least the poll interval to the time passed.
SleepAdvances ==
    (pc = "pollSleep" /\ elapsed' # elapsed) => elapsed' >= elapsed + PollIntervalMs

\* C5: the poll for a send control ends: a round starts only inside the
\* 30-second window and every sleep adds at least 500 ms; the poll is left
\* for the click with the first selector, in the fixed order, whose element
\* was seen displayed and enabled, or without a button once the window has
\* passed; a click is only issued on such an element.
C5_PollEnds ==
    /\ []PollState
    /\ [][SleepAdvances]_vars
    /\ (pc \in { "find", "pollSleep" }) ~> (pc \in { "click", "noButton" })

C5_Witness ==
    /\ pc = "click"
    /\ sendButton.sel = 3
    /\ \E k \in DOMAIN ops : ops[k] = << "poll", 1, FALSE >>
====
